---------------------------- MODULE Spec2Model ----------------------------
(***************************************************************************)
(* Volcengine speech plugin: the binary frame codec and the recognition    *)
(* session of stt.py, and the synthesis sessions and the connection pool   *)
(* of tts.py.                                                              *)
(*                                                                         *)
(* Five specifications share this module, one per component:               *)
(*   SpecCodec  the frame codec as a pure function on byte sequences       *)
(*   SpecStt    one recognition session (SpeechStream)                     *)
(*   SpecTts    one streaming synthesis session (SynthesizeStream._run)    *)
(*   SpecChunk  one one-shot synthesis (ChunkedStream._run)                *)
(*   SpecPool   the connection pool of the streaming synthesis             *)
(* Each leaves the variables of the other components unchanged.            *)
(***************************************************************************)
EXTENDS Integers, Sequences, FiniteSets, TLC

VARIABLES
    \* --- codec ---
    cPc,        \* "start" | "encoded" | "served" | "cut" | "decoded"
    cFrom,      \* what the decoded buffer was: "encoded" | "served" | "cut"
    cIn,        \* the inputs of encode: [mt, fl, ser, comp, seq, pay]
    cBuf,       \* the byte buffer handed to _parse_response
    cOut,       \* the outcome of _parse_response
    \* --- recognition session ---
    seq,        \* SpeechStream.seq
    speaking,   \* SpeechStream.speaking
    sttPc,      \* the socket: "idle" | "connected" | "closed"
    runPc,      \* run(): "idle" | "running" | the exception that ended it
    sent,       \* frames written to the socket, in order
    events,     \* SpeechEvents put on _event_ch, in order
    lastRes,    \* what run() made of the last frame it read
    nRecv,      \* server frames read by run()
    nPush,      \* push_audio calls made
    nFlush,     \* flush calls made
    results,    \* of each frame run() handled: [text, is_final]
    closes,     \* close calls made, what had been sent and emitted at the first,
                \* whether a later one changed the session
    \* --- streaming synthesis session ---
    input_ch,       \* _input_ch: fragments (1, 2, ...) and flush sentinels (0)
    input_closed,   \* _input_ch is closed
    segments,       \* the word streams created: [held, out, ended]
    segments_ch,    \* _segments_ch: the word streams queued for the sender
    segments_closed,\* _segments_ch is closed
    reconnect_event,\* _reconnect_event is set
    word_stream,    \* _tokenize_input's word_stream (0 is None)
    cur_stream,     \* the word stream _run_segments iterates (0: none)
    task,           \* the state of each task of the epoch
    pc,             \* _run: "get" | "wait" | "cancel" | "ended" ("off": none)
    ws,             \* _run's ws (0 is None)
    leaving,        \* the loop took its break
    outcome,        \* how _run ended
    pool,           \* the connection pool: [idle, leased, made, closed, twice]
    wire,           \* the token frames sent: [epoch, token]
    epoch,          \* connections this session acquired
    heard,          \* a binary message was received in this epoch
    ghost,          \* history: calls made, fragments pushed, faults met
    \* --- one-shot synthesis ---
    chunkPc,        \* ChunkedStream._run: "connect" | "send" | "recv" | "ended"
    audio_bstream,  \* the bytes audio_bstream holds back (a partial frame)
    chunk_events,   \* the frames put on _event_ch, in order
    chunkLog,       \* the messages read from the socket: their sizes, 0 for text
    chunkOutcome,   \* how _run ended
    chunkGhost,     \* history: connects, sends, the exception met and where
    \* --- the connection pool of the TTS facade ---
    pool_clock,     \* the time
    pool_conns,     \* the connections made: [connected_at, stamp, where]
    pool_last,      \* the last acquire or release: [op, conn, age, admitted]
    \* --- the receiver task of the streaming synthesis ---
    recvPc,         \* "off" | "running" | "done" | the exception that ended it
    recv_bstream,   \* what the reassembler holds: less than one frame
    recv_emitted,   \* the frames pushed to the emitter, in order
    recv_flushed,   \* emitter.flush() was called: the emission is closed
    recvLog         \* the messages read: [kind, size]

codecVars == <<cPc, cFrom, cIn, cBuf, cOut>>
sttVars ==
    <<seq, speaking, sttPc, runPc, sent, events, lastRes, nRecv, nPush, nFlush,
      closes, results>>
ttsVars ==
    <<input_ch, input_closed, segments, segments_ch, segments_closed,
      reconnect_event, word_stream, cur_stream, task, pc, ws, leaving, outcome,
      pool, wire, epoch, heard, ghost>>
chunkVars ==
    <<chunkPc, audio_bstream, chunk_events, chunkLog, chunkOutcome, chunkGhost>>
poolVars == <<pool_clock, pool_conns, pool_last>>
recvVars == <<recvPc, recv_bstream, recv_emitted, recv_flushed, recvLog>>
vars == <<codecVars, sttVars, ttsVars, chunkVars, poolVars, recvVars>>

-----------------------------------------------------------------------------
(* Bounds of the model *)

\* raw payloads are byte sequences of at most this length
MaxPayloadLen == 1
\* sequence numbers fed to the codec range over -MaxSeq..MaxSeq and the int32 ends
MaxSeq == 2
\* pushAudio calls of one recognition session
MaxPush == 2
\* flush calls of one recognition session
MaxFlush == 2
\* server frames read by run()
MaxRecv == 3
\* close calls on one recognition session
MaxClose == 2
\* open calls on one recognition session
MaxOpen == 2
\* calls of open, push_audio, flush and close on one recognition session
MaxSttCalls == 4
\* messages read from the socket by one one-shot synthesis
MaxMessages == 3
\* bytes of one binary message
MaxMessageBytes == 3
\* connections the pool makes
MaxConns == 2
\* ticks of the pool's clock
MaxClock == 4
\* max_session_duration (3600 s in tts.py), in ticks of the pool's clock
MaxSessionDuration == 2
\* push_text, flush and update_options calls made on one streaming synthesis
\* session (the end of the input comes on top of them)
MaxCalls == 3

-----------------------------------------------------------------------------
(* Protocol constants, stt.py:18-40 *)

PROTOCOL_VERSION == 1
DEFAULT_HEADER_SIZE == 1
FULL_CLIENT_REQUEST == 1
AUDIO_ONLY_REQUEST == 2
FULL_SERVER_RESPONSE == 9
SERVER_ACK == 11
SERVER_ERROR_RESPONSE == 15
NO_SEQUENCE == 0
POS_SEQUENCE == 1
NEG_SEQUENCE == 2
NEG_WITH_SEQUENCE == 3
NO_SERIALIZATION == 0
JSON == 1
NO_COMPRESSION == 0
GZIP == 1

Int32Max == 2147483647
Int32Min == -Int32Max - 1

-----------------------------------------------------------------------------
(* Bytes and integers *)

Byte == 0..255

\* b[from..] of Python: never raises, empty when from is past the end
SliceFrom(b, from) == SubSeq(b, from + 1, Len(b))
\* b[from:to] of Python
Slice(b, from, to) ==
    LET hi == IF to < Len(b) THEN to ELSE Len(b)
    IN  SubSeq(b, from + 1, hi)

\* the big-endian value of at most 4 bytes, top bit of a 4-byte field clear
BeValue(b) ==
    CASE Len(b) = 0 -> 0
      [] Len(b) = 1 -> b[1]
      [] Len(b) = 2 -> b[1] * 256 + b[2]
      [] Len(b) = 3 -> (b[1] * 256 + b[2]) * 256 + b[3]
      [] OTHER      -> ((b[1] * 256 + b[2]) * 256 + b[3]) * 256 + b[4]

\* A 33-bit quantity hi * 2^31 + lo, hi in {-1, 0, 1}: the sizes and codes of a
\* frame are read both signed and unsigned, and an unsigned one may pass 2^31.
Wide(n) ==
    IF n >= 0 THEN [hi |-> 0, lo |-> n]
    ELSE [hi |-> -1, lo |-> (n + Int32Max) + 1]

\* int.from_bytes(b, "big", signed=False) for len(b) <= 4
FromBytesUnsigned(b) ==
    IF Len(b) = 4 /\ b[1] >= 128
    THEN [hi |-> 1, lo |-> BeValue(<<b[1] - 128, b[2], b[3], b[4]>>)]
    ELSE [hi |-> 0, lo |-> BeValue(b)]

\* int.from_bytes(b, "big", signed=True) for len(b) <= 4
FromBytesSigned(b) ==
    IF Len(b) = 0 \/ b[1] < 128 THEN BeValue(b)
    ELSE CASE Len(b) = 1 -> BeValue(b) - 256
           [] Len(b) = 2 -> BeValue(b) - 65536
           [] Len(b) = 3 -> BeValue(b) - 16777216
           [] OTHER      ->
                (BeValue(<<b[1] - 128, b[2], b[3], b[4]>>) - Int32Max) - 1

\* n.to_bytes(4, "big") for 0 <= n < 2^31
ToBytes4(n) ==
    <<n \div 16777216, (n \div 65536) % 256, (n \div 256) % 256, n % 256>>

\* n.to_bytes(4, "big", signed=True) for an int32 n (two's complement)
ToBytes4Signed(n) ==
    IF n >= 0 THEN ToBytes4(n)
    ELSE LET r == (n + Int32Max) + 1
             lo == ToBytes4(r)
         IN  <<lo[1] + 128, lo[2], lo[3], lo[4]>>

-----------------------------------------------------------------------------
(* gzip and json, by what they do to a payload: both change the bytes, both  *)
(* invert on their own output and fail on anything else.                     *)

\* gzip.compress: the magic 1f 8b, the data, the length trailer (ISIZE)
GzipCompress(b) == <<31, 139>> \o b \o <<Len(b) % 256>>

IsGzip(b) ==
    /\ Len(b) >= 3
    /\ b[1] = 31
    /\ b[2] = 139
    /\ b[Len(b)] = (Len(b) - 3) % 256

\* gzip.decompress: "" for no input, the data of a well-formed member, else the
\* exception it raises
GzipError(b) ==
    CASE Len(b) = 0 -> "none"
      [] IsGzip(b) -> "none"
      [] Len(b) >= 2 /\ b[1] = 31 /\ b[2] = 139 -> "EOFError"
      [] OTHER -> "BadGzipFile"

GzipDecompress(b) == IF Len(b) = 0 THEN <<>> ELSE SubSeq(b, 3, Len(b) - 1)

\* The JSON documents of the model, by number:
\*   1  {"result": {"text": "a"}}     2  {"result": {"text": "b"}}
\*   3  {"result": {"text": ""}}      4  {}
\*   5  {"error": "x"}                6  the request of _send_full_client_request
\*   7  []
JsonDocs == 1..7

\* whether the document is an object (has .get)
JsonIsDict(j) == j # 7

\* payload_msg.get("result", {}).get("text", "") as a number: 0 is ""
JsonText(j) == CASE j = 1 -> 1 [] j = 2 -> 2 [] OTHER -> 0

\* json.dumps(...).encode("utf-8"): braces around the document
JsonDumps(j) == <<123, 48 + j, 125>>

IsJson(b) ==
    /\ Len(b) = 3
    /\ b[1] = 123
    /\ b[3] = 125
    /\ (b[2] - 48) \in JsonDocs

JsonLoads(b) == b[2] - 48

\* str(b, "utf-8") succeeds on ASCII; the model's non-ASCII bytes are invalid
IsUtf8(b) == \A i \in 1..Len(b) : b[i] < 128

-----------------------------------------------------------------------------
(* Encoding: SpeechStream._generate_header, _generate_before_payload and the *)
(* assembly of a frame in _send_full_client_request / _send_audio_chunk.     *)

\* (message_type, message_type_specific_flags, serial_method, compression_type,
\* reserved_data)
GenerateHeader(mt, fl, ser, comp, reserved_data) ==
    << PROTOCOL_VERSION * 16 + DEFAULT_HEADER_SIZE,
       mt * 16 + fl,
       ser * 16 + comp,
       reserved_data >>

\* the sequence written little-endian
GenerateBeforePayloadLittle(sequence) ==
    LET b == ToBytes4Signed(sequence) IN <<b[4], b[3], b[2], b[1]>>

GenerateBeforePayload(sequence) == ToBytes4Signed(sequence)

\* header, sequence, length of the payload as sent, payload
AssembleFrame(header, sequence, payload_bytes) ==
    header \o GenerateBeforePayload(sequence)
           \o ToBytes4(Len(payload_bytes)) \o payload_bytes

\* The payload as sent: serialized when the method is JSON, then compressed
\* when the compression is gzip. pay is [json |-> document] for a JSON payload
\* and [raw |-> bytes] otherwise.
PayloadBytes(serial_method, compression_type, pay) ==
    LET ser == IF serial_method = JSON THEN JsonDumps(pay.json) ELSE pay.raw
    IN  IF compression_type = GZIP THEN GzipCompress(ser) ELSE ser

Encode(message_type, flags, serial_method, compression_type, sequence, pay) ==
    AssembleFrame(
        GenerateHeader(message_type, flags, serial_method, compression_type, 0),
        sequence,
        PayloadBytes(serial_method, compression_type, pay))

-----------------------------------------------------------------------------
(* Decoding: SpeechStream._parse_response *)

NoWide == [hi |-> 0, lo |-> 0]
NoMsg == [kind |-> "none", bytes |-> <<>>, json |-> 0]

\* What _parse_response returns; err # "none" is the exception it raised
\* instead, and then nothing is returned.
Raised(e) ==
    [ err |-> e, is_last_package |-> FALSE,
      has_payload_sequence |-> FALSE, payload_sequence |-> 0,
      has_seq |-> FALSE, seq |-> 0,
      has_code |-> FALSE, code |-> NoWide,
      payload_msg |-> NoMsg, payload_size |-> NoWide ]

\* lines 188-194: the header fields as the decoder reads them
ParseHeader(res) ==
    [ protocol_version |-> res[1] \div 16,
      header_size |-> res[1] % 16,
      message_type |-> res[2] \div 16,
      message_type_specific_flags |-> res[2] % 16,
      serialization_method |-> res[3] \div 16,
      message_compression |-> res[3] % 16,
      reserved |-> res[4] ]

\* lines 206-219: the branch on the message type. bound says whether
\* payload_msg and payload_size were assigned at all.
ParseBody(message_type, payload) ==
    CASE message_type = FULL_SERVER_RESPONSE ->
            [ bound |-> TRUE, has_seq |-> FALSE, seq |-> 0,
              has_code |-> FALSE, code |-> NoWide,
              payload_size |-> Wide(FromBytesSigned(Slice(payload, 0, 4))),
              payload_msg |-> SliceFrom(payload, 4) ]
      [] message_type = SERVER_ACK ->
            [ bound |-> Len(payload) >= 8,
              has_seq |-> TRUE, seq |-> FromBytesSigned(Slice(payload, 0, 4)),
              has_code |-> FALSE, code |-> NoWide,
              payload_size |-> FromBytesUnsigned(Slice(payload, 4, 8)),
              payload_msg |-> SliceFrom(payload, 8) ]
      [] message_type = SERVER_ERROR_RESPONSE ->
            [ bound |-> TRUE, has_seq |-> FALSE, seq |-> 0,
              has_code |-> TRUE, code |-> FromBytesUnsigned(Slice(payload, 0, 4)),
              payload_size |-> FromBytesUnsigned(Slice(payload, 4, 8)),
              payload_msg |-> SliceFrom(payload, 8) ]
      [] OTHER ->
            [ bound |-> FALSE, has_seq |-> FALSE, seq |-> 0,
              has_code |-> FALSE, code |-> NoWide,
              payload_size |-> NoWide, payload_msg |-> <<>> ]

\* lines 220-226: decompression, then deserialization
ParsePayload(h, body) ==
    LET gz == h.message_compression = GZIP
        unz == IF gz THEN GzipDecompress(body.payload_msg) ELSE body.payload_msg
    IN  CASE ~body.bound -> [err |-> "UnboundLocalError", msg |-> NoMsg]
          [] gz /\ GzipError(body.payload_msg) # "none" ->
                [err |-> GzipError(body.payload_msg), msg |-> NoMsg]
          [] h.serialization_method = JSON /\ ~IsUtf8(unz) ->
                [err |-> "UnicodeDecodeError", msg |-> NoMsg]
          [] h.serialization_method = JSON /\ ~IsJson(unz) ->
                [err |-> "JSONDecodeError", msg |-> NoMsg]
          [] h.serialization_method = JSON ->
                [err |-> "none",
                 msg |-> [kind |-> "json", bytes |-> <<>>, json |-> JsonLoads(unz)]]
          [] h.serialization_method # NO_SERIALIZATION /\ ~IsUtf8(unz) ->
                [err |-> "UnicodeDecodeError", msg |-> NoMsg]
          [] h.serialization_method # NO_SERIALIZATION ->
                [err |-> "none", msg |-> [kind |-> "str", bytes |-> unz, json |-> 0]]
          [] OTHER ->
                [err |-> "none", msg |-> [kind |-> "bytes", bytes |-> unz, json |-> 0]]

\* a terminal marker read off the one flag value NegWithSequence
IsLastByValue(flags) == flags = NEG_WITH_SEQUENCE

\* lines 204-205: flags & 0x02
IsLastPackage(flags) == (flags \div 2) % 2 = 1

ParseResponse(res) ==
    IF Len(res) < 4 THEN Raised("IndexError")
    ELSE
    LET h == ParseHeader(res)
        payload0 == SliceFrom(res, h.header_size * 4)
        hasSeq == h.message_type_specific_flags % 2 = 1
        payload == IF hasSeq THEN SliceFrom(payload0, 4) ELSE payload0
        body == ParseBody(h.message_type, payload)
        p == ParsePayload(h, body)
    IN  IF p.err # "none" THEN Raised(p.err)
        ELSE
        [ err |-> "none",
          is_last_package |-> IsLastPackage(h.message_type_specific_flags),
          has_payload_sequence |-> hasSeq,
          payload_sequence |->
              IF hasSeq THEN FromBytesSigned(Slice(payload0, 0, 4)) ELSE 0,
          has_seq |-> body.has_seq, seq |-> body.seq,
          has_code |-> body.has_code, code |-> body.code,
          payload_msg |-> p.msg, payload_size |-> body.payload_size ]

-----------------------------------------------------------------------------
(* The frames of the remote end, laid out as the decoder expects them        *)
(* (the remote end is not part of the repository).                           *)

ErrorCodes == {45000001, 55000031}

\* ServerAck carries a sequence echo and, unless short, a sized payload;
\* ServerErrorResponse an error code and a sized payload; FullServerResponse
\* a sized payload.
ServerFrame(mt, fl, ser, comp, sequence, code, short, pay) ==
    LET pb == PayloadBytes(ser, comp, pay)
        sized == ToBytes4(Len(pb)) \o pb
        lead == IF fl % 2 = 1 THEN ToBytes4Signed(sequence) ELSE <<>>
        body == CASE mt = SERVER_ACK ->
                       ToBytes4Signed(sequence) \o (IF short THEN <<>> ELSE sized)
                  [] mt = SERVER_ERROR_RESPONSE -> ToBytes4(code) \o sized
                  [] OTHER -> sized
    IN  GenerateHeader(mt, fl, ser, comp, 0) \o lead \o body

-----------------------------------------------------------------------------
(* The codec as a state machine: inputs are drawn, encoded by the client's   *)
(* assembly or laid out as the remote end does, possibly cut short, decoded. *)

MessageTypes ==
    { FULL_CLIENT_REQUEST, AUDIO_ONLY_REQUEST, FULL_SERVER_RESPONSE,
      SERVER_ACK, SERVER_ERROR_RESPONSE }
ServerTypes == {FULL_SERVER_RESPONSE, SERVER_ACK, SERVER_ERROR_RESPONSE}
FlagNibbles == 0..15
CodecCodes == 0..2
SeqValues == (-MaxSeq..MaxSeq) \cup {Int32Max, Int32Min}
RawBytes == {65, 200}
RawPayloads == UNION {[1..n -> RawBytes] : n \in 0..MaxPayloadLen}
CodecDocs == {1, 4, 7}
JsonPayloads == {[json |-> j, raw |-> <<>>] : j \in CodecDocs}
BytePayloads == {[json |-> 0, raw |-> r] : r \in RawPayloads}

CodecInputs ==
    { [mt |-> m, fl |-> f, ser |-> s, comp |-> c, seq |-> q, pay |-> p] :
        m \in MessageTypes, f \in FlagNibbles, s \in CodecCodes,
        c \in CodecCodes, q \in SeqValues, p \in JsonPayloads \cup BytePayloads }

NoInput ==
    [mt |-> 0, fl |-> 0, ser |-> 0, comp |-> 0, seq |-> 0,
     pay |-> [json |-> 0, raw |-> <<>>]]

CodecInit ==
    /\ cPc = "start"
    /\ cFrom = "none"
    /\ cIn \in {i \in CodecInputs : (i.ser = JSON) = (i.pay.json # 0)}
    /\ cBuf = <<>>
    /\ cOut = Raised("none")

CodecIdle ==
    /\ cPc = "off"
    /\ cFrom = "none"
    /\ cIn = NoInput
    /\ cBuf = <<>>
    /\ cOut = Raised("none")

\* encode: the assembly of stt.py:109-113 and 125-131
CodecEncode ==
    /\ cPc = "start"
    /\ cBuf' = Encode(cIn.mt, cIn.fl, cIn.ser, cIn.comp, cIn.seq, cIn.pay)
    /\ cPc' = "encoded"
    /\ UNCHANGED <<cFrom, cIn, cOut>>
    /\ UNCHANGED <<sttVars, ttsVars, chunkVars, poolVars, recvVars>>

\* a frame of the remote end
CodecServe ==
    /\ cPc = "start"
    /\ cIn.mt \in ServerTypes
    /\ \E code \in ErrorCodes, short \in BOOLEAN :
          /\ (cIn.mt # SERVER_ERROR_RESPONSE) => code = 45000001
          /\ (cIn.mt # SERVER_ACK) => ~short
          /\ cBuf' = ServerFrame(cIn.mt, cIn.fl, cIn.ser, cIn.comp, cIn.seq,
                                 code, short, cIn.pay)
    /\ cPc' = "served"
    /\ UNCHANGED <<cFrom, cIn, cOut>>
    /\ UNCHANGED <<sttVars, ttsVars, chunkVars, poolVars, recvVars>>

\* a buffer that ends early: its first 0..3 bytes, or all but its last byte
CodecCut ==
    /\ cPc \in {"encoded", "served"}
    /\ \E k \in {0, 1, 2, 3, Len(cBuf) - 1} :
          /\ k < Len(cBuf)
          /\ cBuf' = SubSeq(cBuf, 1, k)
    /\ cPc' = "cut"
    /\ UNCHANGED <<cFrom, cIn, cOut>>
    /\ UNCHANGED <<sttVars, ttsVars, chunkVars, poolVars, recvVars>>

\* decode: _parse_response
CodecDecode ==
    /\ cPc \in {"encoded", "served", "cut"}
    /\ cOut' = ParseResponse(cBuf)
    /\ cFrom' = cPc
    /\ cPc' = "decoded"
    /\ UNCHANGED <<cIn, cBuf>>
    /\ UNCHANGED <<sttVars, ttsVars, chunkVars, poolVars, recvVars>>

CodecNext == CodecEncode \/ CodecServe \/ CodecCut \/ CodecDecode

-----------------------------------------------------------------------------
(* The recognition session: SpeechStream of stt.py                           *)

AudioChunks == {<<65>>}
NoCloses == [n |-> 0, sent |-> 0, events |-> 0, again |-> FALSE]

NoRes == [recv |-> FALSE, mt |-> 0, has_code |-> FALSE, code |-> NoWide, emitted |-> 0]

\* __init__, lines 73-78
SttInit ==
    /\ seq = 1
    /\ speaking = FALSE
    /\ sttPc = "idle"
    /\ runPc = "idle"
    /\ sent = <<>>
    /\ events = <<>>
    /\ lastRes = NoRes
    /\ nRecv = 0
    /\ nPush = 0
    /\ nFlush = 0
    /\ closes = NoCloses
    /\ results = <<>>

SttIdle ==
    /\ seq = 1
    /\ speaking = FALSE
    /\ sttPc = "off"
    /\ runPc = "idle"
    /\ sent = <<>>
    /\ events = <<>>
    /\ lastRes = NoRes
    /\ nRecv = 0
    /\ nPush = 0
    /\ nFlush = 0
    /\ closes = NoCloses
    /\ results = <<>>

\* line 109-113: the configuration frame
FullClientRequestFrame(sequence) ==
    AssembleFrame(
        GenerateHeader(FULL_CLIENT_REQUEST, POS_SEQUENCE, JSON, GZIP, 0),
        sequence,
        GzipCompress(JsonDumps(6)))

\* line 126 and line 128: the flags and the sequence of an audio frame
ChunkFlags(is_last) == IF is_last THEN NEG_WITH_SEQUENCE ELSE POS_SEQUENCE
\* the last chunk numbered with the last value used, not the next one
ChunkSequenceLastUsed(counter, is_last) ==
    IF is_last THEN -(counter - 1) ELSE counter

ChunkSequence(counter, is_last) == IF is_last THEN -counter ELSE counter

\* lines 125-131: the audio frame
AudioOnlyRequestFrame(counter, chunk, is_last) ==
    AssembleFrame(
        GenerateHeader(AUDIO_ONLY_REQUEST, ChunkFlags(is_last), JSON, GZIP, 0),
        ChunkSequence(counter, is_last),
        GzipCompress(chunk))

\* a counter that no audio frame advances
CounterNeverAdvances(counter, is_last) == counter

\* a counter that every audio frame advances, the last one too
CounterAlwaysAdvances(counter, is_last) == counter + 1

\* lines 133-134: the counter after an audio frame
CounterAfterChunk(counter, is_last) == IF is_last THEN counter ELSE counter + 1

\* the open calls made: each one sends one configuration frame
Opens == Cardinality({i \in 1..Len(sent) : sent[i][2] \div 16 = FULL_CLIENT_REQUEST})

\* the calls the caller has made on the session
SttCalls == Opens + nPush + nFlush + closes.n

\* __aenter__ with _send_full_client_request: no condition on the session, a
\* new socket replaces the one there is and the counter goes on
Open ==
    /\ sttPc \in {"idle", "connected", "closed"}
    /\ Opens < MaxOpen
    /\ SttCalls < MaxSttCalls
    /\ sent' = Append(sent, FullClientRequestFrame(seq))
    /\ seq' = seq + 1
    /\ sttPc' = "connected"
    /\ UNCHANGED <<speaking, runPc, events, lastRes, nRecv, nPush, nFlush, closes,
                   results>>
    /\ UNCHANGED <<codecVars, ttsVars, chunkVars, poolVars, recvVars>>

\* _send_audio_chunk
SendAudioChunk(chunk, is_last) ==
    /\ sent' = Append(sent, AudioOnlyRequestFrame(seq, chunk, is_last))
    /\ seq' = CounterAfterChunk(seq, is_last)

PushAudio ==
    /\ sttPc = "connected"
    /\ nPush < MaxPush
    /\ SttCalls < MaxSttCalls
    /\ \E chunk \in AudioChunks : SendAudioChunk(chunk, FALSE)
    /\ nPush' = nPush + 1
    /\ UNCHANGED <<speaking, sttPc, runPc, events, lastRes, nRecv, nFlush, closes,
                   results>>
    /\ UNCHANGED <<codecVars, ttsVars, chunkVars, poolVars, recvVars>>

Flush ==
    /\ sttPc = "connected"
    /\ nFlush < MaxFlush
    /\ SttCalls < MaxSttCalls
    /\ SendAudioChunk(<<>>, TRUE)
    /\ nFlush' = nFlush + 1
    /\ UNCHANGED <<speaking, sttPc, runPc, events, lastRes, nRecv, nPush, closes,
                   results>>
    /\ UNCHANGED <<codecVars, ttsVars, chunkVars, poolVars, recvVars>>

\* __aexit__: closes the socket when there is one
Close ==
    /\ sttPc \in {"idle", "connected", "closed"}
    /\ closes.n < MaxClose
    /\ SttCalls < MaxSttCalls
    /\ sttPc' = IF sttPc = "idle" THEN "idle" ELSE "closed"
    /\ closes' = IF closes.n = 0
                 THEN [n |-> 1, sent |-> Len(sent), events |-> Len(events),
                       again |-> FALSE]
                 ELSE [closes EXCEPT !.n = @ + 1,
                                     !.again = @ \/ sttPc' # sttPc]
    /\ UNCHANGED <<seq, speaking, runPc, sent, events, lastRes, nRecv, nPush, nFlush,
                   results>>
    /\ UNCHANGED <<codecVars, ttsVars, chunkVars, poolVars, recvVars>>

\* The frames the remote end may send to run()
SttDocs == {1, 3, 7}
SttFlags == {POS_SEQUENCE, NEG_WITH_SEQUENCE}
SttServerFrames ==
    { ServerFrame(m, f, JSON, GZIP, 1, 45000001, FALSE, [json |-> j, raw |-> <<>>]) :
        m \in ServerTypes, f \in SttFlags, j \in SttDocs }
    \cup { ServerFrame(SERVER_ACK, POS_SEQUENCE, JSON, GZIP, 1, 45000001, TRUE,
                       [json |-> 4, raw |-> <<>>]),
           ServerFrame(FULL_SERVER_RESPONSE, POS_SEQUENCE, NO_SERIALIZATION,
                       NO_COMPRESSION, 1, 45000001, FALSE, [json |-> 0, raw |-> <<65>>]),
           <<17, 144>> }

\* _parse_response of each of them (line 139)
SttParsed == [res \in SttServerFrames |-> ParseResponse(res)]

START_OF_SPEECH == [type |-> "START_OF_SPEECH", text |-> 0]
END_OF_SPEECH == [type |-> "END_OF_SPEECH", text |-> 0]

TranscriptInterim(is_final, text) == [type |-> "INTERIM_TRANSCRIPT", text |-> text]

\* lines 147-160: the transcript event
Transcript(is_final, text) ==
    [type |-> IF is_final THEN "FINAL_TRANSCRIPT" ELSE "INTERIM_TRANSCRIPT",
     text |-> text]

\* a span started on every transcript, whether or not one is open
StartOfSpanUnguarded(spk, text) == IF text # 0 THEN <<START_OF_SPEECH>> ELSE <<>>

\* lines 143-147: the start of a span
StartOfSpan(spk, text) == IF text # 0 /\ ~spk THEN <<START_OF_SPEECH>> ELSE <<>>
\* a span ended on every terminal frame, whether or not one is open
EndOfSpanUnguarded(spk, is_final) == IF is_final THEN <<END_OF_SPEECH>> ELSE <<>>

\* lines 162-164: the end of a span; spk is self.speaking at that line
EndOfSpan(spk, is_final) == IF is_final /\ spk THEN <<END_OF_SPEECH>> ELSE <<>>

\* lines 141-164: the events of one decoded frame and self.speaking after it
HandleResult(spk, text, is_final) ==
    LET spk1 == spk \/ text # 0
        ev == StartOfSpan(spk, text)
                \o (IF text # 0 THEN <<Transcript(is_final, text)>> ELSE <<>>)
                \o EndOfSpan(spk1, is_final)
    IN  [events |-> ev, speaking |-> spk1 /\ ~is_final]

\* line 141: payload_msg.get(...) needs a dict
HasGet(msg) == msg.kind = "json" /\ JsonIsDict(msg.json)

\* one turn of the loop of run(): lines 138-164
RunRecv ==
    /\ sttPc = "connected"
    /\ runPc \in {"idle", "running"}
    /\ nRecv < MaxRecv
    /\ nRecv' = nRecv + 1
    /\ \E res \in SttServerFrames :
         LET result == SttParsed[res]
             h == HandleResult(speaking, JsonText(result.payload_msg.json),
                               result.is_last_package)
         IN  CASE result.err # "none" ->
                    /\ runPc' = result.err
                    /\ lastRes' = [NoRes EXCEPT !.recv = TRUE]
                    /\ UNCHANGED <<speaking, events, results>>
               [] ~HasGet(result.payload_msg) ->
                    /\ runPc' = "AttributeError"
                    /\ lastRes' = [NoRes EXCEPT !.recv = TRUE]
                    /\ UNCHANGED <<speaking, events, results>>
               [] OTHER ->
                    /\ runPc' = "running"
                    /\ events' = events \o h.events
                    /\ speaking' = h.speaking
                    /\ results' = Append(results,
                           [text |-> JsonText(result.payload_msg.json) # 0,
                            is_final |-> result.is_last_package])
                    /\ lastRes' = [recv |-> TRUE, mt |-> res[2] \div 16,
                                   has_code |-> result.has_code,
                                   code |-> result.code,
                                   emitted |-> Len(h.events)]
    /\ UNCHANGED <<seq, sttPc, sent, nPush, nFlush, closes>>
    /\ UNCHANGED <<codecVars, ttsVars, chunkVars, poolVars, recvVars>>

\* recv() on a closed socket raises
RunSocketClosed ==
    /\ sttPc = "closed"
    /\ runPc \in {"idle", "running"}
    /\ runPc' = "ConnectionClosed"
    /\ UNCHANGED <<seq, speaking, sttPc, sent, events, lastRes, nRecv, nPush, nFlush,
                   closes, results>>
    /\ UNCHANGED <<codecVars, ttsVars, chunkVars, poolVars, recvVars>>

SttNext == Open \/ PushAudio \/ Flush \/ Close \/ RunRecv \/ RunSocketClosed

-----------------------------------------------------------------------------
(* The streaming synthesis session: SynthesizeStream of tts.py.              *)
(* The tasks are asyncio tasks on one event loop: each action below is what  *)
(* one task does between two suspension points.                              *)

FlushSentinel == 0
EpochTasks == {"tokenize", "send", "recv"}
Raises == {"TimeoutError", "ConnectionClosed"}

NoStream == [held |-> <<>>, out |-> <<>>, ended |-> FALSE]
NoTasks ==
    [tokenize |-> "idle", send |-> "idle", recv |-> "idle"]
NoPool == [idle |-> {}, leased |-> {}, made |-> 0, closed |-> {}, twice |-> FALSE]
NoGhost ==
    [nCalls |-> 0, nFrag |-> 0, updMid |-> FALSE, late |-> {},
     atReconnect |-> {}, raised |-> FALSE, updates |-> 0, reconnects |-> 0]

\* __init__ (lines 290-296) and the first lines of _run (320-326, 385)
TtsInit ==
    /\ input_ch = <<>>
    /\ input_closed = FALSE
    /\ segments = <<>>
    /\ segments_ch = <<>>
    /\ segments_closed = FALSE
    /\ reconnect_event = FALSE
    /\ word_stream = 0
    /\ cur_stream = 0
    /\ task = NoTasks
    /\ pc = "get"
    /\ ws = 0
    /\ leaving = FALSE
    /\ outcome = "running"
    /\ pool = NoPool
    /\ wire = <<>>
    /\ epoch = 0
    /\ heard = FALSE
    /\ ghost = NoGhost

TtsIdle ==
    /\ input_ch = <<>>
    /\ input_closed = FALSE
    /\ segments = <<>>
    /\ segments_ch = <<>>
    /\ segments_closed = FALSE
    /\ reconnect_event = FALSE
    /\ word_stream = 0
    /\ cur_stream = 0
    /\ task = NoTasks
    /\ pc = "off"
    /\ ws = 0
    /\ leaving = FALSE
    /\ outcome = "off"
    /\ pool = NoPool
    /\ wire = <<>>
    /\ epoch = 0
    /\ heard = FALSE
    /\ ghost = NoGhost

(* The word stream of the tokenizer (tokenize.basic.WordTokenizer, line 103): *)
(* it holds the last word pushed, which more text may still extend, and       *)
(* gives it out when the next word or the end of the input comes.             *)

\* a word stream that gives its words out last first
WordStreamPushFront(st, f) == [st EXCEPT !.out = st.held \o st.out, !.held = <<f>>]

WordStreamPushText(st, f) == [st EXCEPT !.out = st.out \o st.held, !.held = <<f>>]
WordStreamEndInput(st) ==
    [st EXCEPT !.out = st.out \o st.held, !.held = <<>>, !.ended = TRUE]

(* The connection pool: acquire takes an idle connection or makes one,       *)
(* release returns a connection to the idle set unless it is past its        *)
(* maximum lifetime, and then closes it.                                     *)

PoolGet(p) ==
    IF p.idle # {}
    THEN LET c == CHOOSE c \in p.idle : TRUE
         IN  [conn |-> c,
              pool |-> [p EXCEPT !.idle = @ \ {c}, !.leased = @ \cup {c}]]
    ELSE [conn |-> p.made + 1,
          pool |-> [p EXCEPT !.made = @ + 1, !.leased = @ \cup {p.made + 1}]]

PoolRelease(p, c, expired) ==
    [p EXCEPT !.leased = @ \ {c},
              !.idle = IF expired THEN @ \ {c} ELSE @ \cup {c},
              !.closed = IF expired THEN @ \cup {c} ELSE @,
              !.twice = @ \/ c \notin p.leased]

\* the callers of the session: push_text, flush, end_input
PushText ==
    /\ pc \notin {"off", "ended"}
    /\ ~input_closed
    /\ ghost.nCalls < MaxCalls
    /\ input_ch' = Append(input_ch, ghost.nFrag + 1)
    /\ ghost' = [ghost EXCEPT !.nCalls = @ + 1, !.nFrag = @ + 1,
                              !.late = IF ghost.updMid
                                       THEN @ \cup {ghost.nFrag + 1} ELSE @]
    /\ UNCHANGED <<input_closed, segments, segments_ch, segments_closed,
                   reconnect_event, word_stream, cur_stream, task, pc, ws,
                   leaving, outcome, pool, wire, epoch, heard>>
    /\ UNCHANGED <<codecVars, sttVars, chunkVars, poolVars, recvVars>>

FlushText ==
    /\ pc \notin {"off", "ended"}
    /\ ~input_closed
    /\ ghost.nCalls < MaxCalls
    /\ input_ch' = Append(input_ch, FlushSentinel)
    /\ ghost' = [ghost EXCEPT !.nCalls = @ + 1]
    /\ UNCHANGED <<input_closed, segments, segments_ch, segments_closed,
                   reconnect_event, word_stream, cur_stream, task, pc, ws,
                   leaving, outcome, pool, wire, epoch, heard>>
    /\ UNCHANGED <<codecVars, sttVars, chunkVars, poolVars, recvVars>>

\* the end of the input, with or without a last flush sentinel
EndInput ==
    /\ pc \notin {"off", "ended"}
    /\ ~input_closed
    /\ \E sentinel \in BOOLEAN :
         input_ch' = IF sentinel THEN Append(input_ch, FlushSentinel) ELSE input_ch
    /\ input_closed' = TRUE
    /\ UNCHANGED <<segments, segments_ch, segments_closed, reconnect_event,
                   word_stream, cur_stream, task, pc, ws, leaving, outcome,
                   pool, wire, epoch, heard, ghost>>
    /\ UNCHANGED <<codecVars, sttVars, chunkVars, poolVars, recvVars>>

\* update_options, lines 298-317: the options change, the event is set
UpdateOptions ==
    /\ pc \notin {"off", "ended"}
    /\ ghost.nCalls < MaxCalls
    /\ reconnect_event' = TRUE
    /\ ghost' = [ghost EXCEPT !.nCalls = @ + 1, !.updates = @ + 1,
                              !.updMid = @ \/ (pc = "wait" /\ word_stream # 0)]
    /\ UNCHANGED <<input_ch, input_closed, segments, segments_ch,
                   segments_closed, word_stream, cur_stream, task, pc, ws,
                   leaving, outcome, pool, wire, epoch, heard>>
    /\ UNCHANGED <<codecVars, sttVars, chunkVars, poolVars, recvVars>>

RECURSIVE TokenizeItems(_, _)
\* lines 331-340: the loop body of _tokenize_input over the items queued
TokenizeItems(items, t) ==
    IF items = <<>> THEN t
    ELSE LET x == Head(items)
             opened ==
                 IF t.word_stream = 0
                 THEN [word_stream |-> Len(t.segments) + 1,
                       segments |-> Append(t.segments, NoStream),
                       segments_ch |-> Append(t.segments_ch, Len(t.segments) + 1)]
                 ELSE t
             fed == [opened EXCEPT
                        !.segments[opened.word_stream] = WordStreamPushText(@, x)]
             flushed ==
                 IF t.word_stream # 0
                 THEN [t EXCEPT !.segments[t.word_stream] = WordStreamEndInput(@),
                                !.word_stream = 0]
                 ELSE t
         IN  TokenizeItems(Tail(items), IF x = FlushSentinel THEN flushed ELSE fed)

\* _tokenize_input, lines 329-341: it takes what the input channel holds and,
\* when the channel is closed, closes the segment channel and ends
TokenizeInput ==
    /\ task.tokenize = "running"
    /\ input_ch # <<>> \/ input_closed
    /\ LET t == TokenizeItems(input_ch,
                   [word_stream |-> word_stream, segments |-> segments,
                    segments_ch |-> segments_ch])
       IN  /\ word_stream' = t.word_stream
           /\ segments' = t.segments
           /\ segments_ch' = t.segments_ch
    /\ input_ch' = <<>>
    /\ segments_closed' = (segments_closed \/ input_closed)
    /\ task' = [task EXCEPT !.tokenize = IF input_closed THEN "done" ELSE @]
    /\ UNCHANGED <<input_closed, reconnect_event, cur_stream, pc, ws, leaving,
                   outcome, pool, wire, epoch, heard, ghost>>
    /\ UNCHANGED <<codecVars, sttVars, chunkVars, poolVars, recvVars>>

RECURSIVE SendAdvance(_)
\* lines 346-360: _run_segments up to its next send, or to where it waits
SendAdvance(r) ==
    IF r.cur = 0
    THEN IF r.ch # <<>>
         THEN SendAdvance([r EXCEPT !.cur = Head(r.ch), !.ch = Tail(r.ch)])
         ELSE [r EXCEPT !.done = segments_closed]
    ELSE IF r.segs[r.cur].out # <<>>
         THEN [r EXCEPT !.token = Head(r.segs[r.cur].out),
                        !.segs[r.cur].out = Tail(@)]
         ELSE IF r.segs[r.cur].ended
              THEN SendAdvance([r EXCEPT !.cur = 0])
              ELSE r

\* _run_segments, lines 344-362: one frame per token over the connection
RunSegments ==
    /\ task.send = "running"
    /\ LET r0 == [cur |-> cur_stream, ch |-> segments_ch, segs |-> segments,
                  token |-> 0, done |-> FALSE]
           r == SendAdvance(r0)
       IN  /\ r # r0
           /\ cur_stream' = r.cur
           /\ segments_ch' = r.ch
           /\ segments' = r.segs
           /\ wire' = IF r.token # 0
                      THEN Append(wire, [epoch |-> epoch, seg |-> r.cur,
                                         token |-> r.token])
                      ELSE wire
           /\ task' = [task EXCEPT !.send = IF r.done THEN "done" ELSE @]
    /\ UNCHANGED <<input_ch, input_closed, segments_closed, reconnect_event,
                   word_stream, pc, ws, leaving, outcome, pool, epoch, heard,
                   ghost>>
    /\ UNCHANGED <<codecVars, sttVars, chunkVars, poolVars, recvVars>>

\* the remote end answers requests: it sends nothing on a connection that
\* carried none
Requested == \E i \in 1..Len(wire) : wire[i].epoch = epoch

\* recv_task, lines 371-383: a binary message
RecvBinary ==
    /\ task.recv = "running"
    /\ Requested
    /\ heard' = TRUE
    /\ UNCHANGED <<input_ch, input_closed, segments, segments_ch,
                   segments_closed, reconnect_event, word_stream, cur_stream,
                   task, pc, ws, leaving, outcome, pool, wire, epoch, ghost>>
    /\ UNCHANGED <<codecVars, sttVars, chunkVars, poolVars, recvVars>>

\* recv_task, lines 373-379: the text message with status "finished"
RecvFinished ==
    /\ task.recv = "running"
    /\ Requested
    /\ task' = [task EXCEPT !.recv = "done"]
    /\ UNCHANGED <<input_ch, input_closed, segments, segments_ch,
                   segments_closed, reconnect_event, word_stream, cur_stream,
                   pc, ws, leaving, outcome, pool, wire, epoch, heard, ghost>>
    /\ UNCHANGED <<codecVars, sttVars, chunkVars, poolVars, recvVars>>

\* ws.send (line 360) or ws.recv (line 372) raises
TaskRaises ==
    /\ \E t \in {"send", "recv"}, e \in Raises :
         /\ task[t] = "running"
         /\ task' = [task EXCEPT ![t] = e]
    /\ ghost' = [ghost EXCEPT !.raised = TRUE]
    /\ UNCHANGED <<input_ch, input_closed, segments, segments_ch,
                   segments_closed, reconnect_event, word_stream, cur_stream,
                   pc, ws, leaving, outcome, pool, wire, epoch, heard>>
    /\ UNCHANGED <<codecVars, sttVars, chunkVars, poolVars, recvVars>>

\* asyncio.gather(*tasks) is done: all three returned, or one raised
GatherDone ==
    \/ \A t \in EpochTasks : task[t] = "done"
    \/ \E t \in EpochTasks : task[t] \in Raises

\* a cancellation that leaves the tasks running
CancelledNot(tk) == tk

\* line 407: gracefully_cancel cancels what still runs
Cancelled(tk) ==
    [t \in DOMAIN tk |-> IF tk[t] = "running" THEN "cancelled" ELSE tk[t]]

Range(q) == {q[k] : k \in 1..Len(q)}

\* the tokens the word streams have produced and the sender has not sent
Unsent == UNION {Range(segments[i].out) : i \in 1..Len(segments)}

\* lines 388-396: a connection from the pool, then the tasks of the epoch
Acquire ==
    /\ pc = "get"
    /\ LET g == PoolGet(pool)
       IN  /\ ws' = g.conn
           /\ pool' = g.pool
    /\ task' = [tokenize |-> "running", send |-> "running", recv |-> "running"]
    /\ word_stream' = 0
    /\ cur_stream' = 0
    /\ heard' = FALSE
    /\ epoch' = epoch + 1
    /\ pc' = "wait"
    /\ UNCHANGED <<input_ch, input_closed, segments, segments_ch,
                   segments_closed, reconnect_event, leaving, outcome, wire,
                   ghost>>
    /\ UNCHANGED <<codecVars, sttVars, chunkVars, poolVars, recvVars>>

\* lines 409-412: what _run raises for an exception caught in the loop
Translate(e) == IF e = "TimeoutError" THEN "APITimeoutError" ELSE "APIConnectionError"

FinallyReleasesAfterWait(w, how) == w # 0 /\ how \in {"break", "reconnect"}

\* lines 413-415: whether the finally clause releases, leaving the try by `how`
FinallyReleases(w, how) == w # 0

\* line 388 raises: no idle connection and the connect fails or times out
AcquireFails ==
    /\ pc = "get"
    /\ pool.idle = {}
    /\ \E e \in {"TimeoutError", "ConnectionError"} : outcome' = Translate(e)
    /\ pool' = IF FinallyReleases(ws, "raise")
               THEN PoolRelease(pool, ws, FALSE) ELSE pool
    /\ pc' = "ended"
    /\ UNCHANGED <<input_ch, input_closed, segments, segments_ch,
                   segments_closed, reconnect_event, word_stream, cur_stream,
                   task, ws, leaving, wire, epoch, heard, ghost>>
    /\ UNCHANGED <<codecVars, sttVars, chunkVars, poolVars, recvVars>>

LoopGoesOn(reconnect) == FALSE

\* a reconnect that leaves the event set
EventLeftSet(event, reconnect) == event

\* line 405: the event is cleared when the reconnect is taken
EventAfterWake(event, reconnect) == event /\ ~reconnect

\* lines 403-404: the loop breaks unless wait_reconnect_task is done
LoopBreaks(reconnect) == ~reconnect

\* lines 396-407: asyncio.wait returns with wait_reconnect_task among the done
\* tasks (the event was set) or without it (the gather is done); the reconnect
\* is taken in the first case and the loop breaks in the second; the tasks
\* still running are cancelled, and the word stream handles that are locals
\* of _tokenize_input and _run_segments go with them
MainWake ==
    /\ pc = "wait"
    /\ \E reconnect \in BOOLEAN :
         /\ IF reconnect THEN reconnect_event ELSE GatherDone
         /\ leaving' = LoopBreaks(reconnect)
         /\ reconnect_event' = EventAfterWake(reconnect_event, reconnect)
         /\ ghost' = [ghost EXCEPT
                         !.atReconnect = IF reconnect THEN @ \cup Unsent ELSE @,
                         !.reconnects = IF reconnect THEN @ + 1 ELSE @]
    /\ task' = Cancelled(task)
    /\ word_stream' = 0
    /\ cur_stream' = 0
    /\ pc' = "cancel"
    /\ UNCHANGED <<input_ch, input_closed, segments, segments_ch,
                   segments_closed, ws, outcome, pool, wire, epoch, heard>>
    /\ UNCHANGED <<codecVars, sttVars, chunkVars, poolVars, recvVars>>

\* lines 413-415 after gracefully_cancel: the connection goes back to the
\* pool; then the loop goes round, or _run returns after the break
AfterCancel ==
    /\ pc = "cancel"
    /\ \E expired \in BOOLEAN :
         pool' = IF FinallyReleases(ws, IF leaving THEN "break" ELSE "reconnect")
                 THEN PoolRelease(pool, ws, expired) ELSE pool
    /\ pc' = IF leaving THEN "ended" ELSE "get"
    /\ outcome' = IF leaving THEN "returned" ELSE outcome
    /\ UNCHANGED <<input_ch, input_closed, segments, segments_ch,
                   segments_closed, reconnect_event, word_stream, cur_stream,
                   task, ws, leaving, wire, epoch, heard, ghost>>
    /\ UNCHANGED <<codecVars, sttVars, chunkVars, poolVars, recvVars>>

\* the session's task is cancelled at one of its awaits (lines 388, 399, 407)
CancelRun ==
    /\ pc \in {"get", "wait", "cancel"}
    /\ task' = Cancelled(task)
    /\ pool' = IF FinallyReleases(ws, "cancel")
               THEN PoolRelease(pool, ws, FALSE) ELSE pool
    /\ outcome' = "CancelledError"
    /\ word_stream' = 0
    /\ cur_stream' = 0
    /\ pc' = "ended"
    /\ UNCHANGED <<input_ch, input_closed, segments, segments_ch,
                   segments_closed, reconnect_event, ws, leaving, wire, epoch,
                   heard, ghost>>
    /\ UNCHANGED <<codecVars, sttVars, chunkVars, poolVars, recvVars>>

TtsNext ==
    \/ PushText \/ FlushText \/ EndInput \/ UpdateOptions
    \/ Acquire \/ AcquireFails \/ TokenizeInput \/ RunSegments
    \/ RecvBinary \/ RecvFinished \/ TaskRaises
    \/ MainWake \/ AfterCancel \/ CancelRun

-----------------------------------------------------------------------------
(* One-shot synthesis: ChunkedStream._run of tts.py.                         *)
(* The bytes received are numbered 1, 2, ... in arrival order.               *)

\* bytes of one AudioFrame, for the configured sample rate and channel count
FrameBytes == 2

RECURSIVE SumOf(_)
SumOf(q) == IF q = <<>> THEN 0 ELSE Head(q) + SumOf(Tail(q))

RECURSIVE Concat(_)
Concat(q) == IF q = <<>> THEN <<>> ELSE Head(q) \o Concat(Tail(q))

RECURSIVE WholeFrames(_)
\* the byte-stream reassembler: the full frames of what it holds
WholeFrames(b) ==
    IF Len(b) < FrameBytes THEN <<>>
    ELSE <<SubSeq(b, 1, FrameBytes)>> \o WholeFrames(SubSeq(b, FrameBytes + 1, Len(b)))

\* the byte-stream reassembler: the partial frame it carries to the next write
Remainder(b) == SubSeq(b, Len(b) - (Len(b) % FrameBytes) + 1, Len(b))

NoChunkGhost == [connects |-> 0, sends |-> 0, cause |-> "none", at |-> "none"]

\* lines 238-242
ChunkInit ==
    /\ chunkPc = "connect"
    /\ audio_bstream = <<>>
    /\ chunk_events = <<>>
    /\ chunkLog = <<>>
    /\ chunkOutcome = "running"
    /\ chunkGhost = NoChunkGhost

ChunkIdle ==
    /\ chunkPc = "off"
    /\ audio_bstream = <<>>
    /\ chunk_events = <<>>
    /\ chunkLog = <<>>
    /\ chunkOutcome = "off"
    /\ chunkGhost = NoChunkGhost

\* what connecting, sending and receiving can raise; ConnectionClosedOK is the
\* remote end closing the socket
ConnectFailures == {"TimeoutError", "OSError"}
SendFailures == {"TimeoutError", "ConnectionClosedError"}
RecvFailures == {"TimeoutError", "ConnectionClosedError", "ConnectionClosedOK"}

ChunkTranslateAsConnection(e) == "APIConnectionError"

\* lines 273-276: what _run raises for an exception of the try block
ChunkTranslate(e) ==
    IF e = "TimeoutError" THEN "APITimeoutError" ELSE "APIConnectionError"

\* lines 273-276: the exception leaves the try block and ends the run
ChunkFails(e) ==
    /\ chunkOutcome' = ChunkTranslate(e)
    /\ chunkGhost' = [chunkGhost EXCEPT !.cause = e, !.at = chunkPc]
    /\ chunkPc' = "ended"
    /\ UNCHANGED <<audio_bstream, chunk_events, chunkLog>>
    /\ UNCHANGED <<codecVars, sttVars, ttsVars, poolVars, recvVars>>

\* line 245: the dedicated socket is open
ChunkConnect ==
    /\ chunkPc = "connect"
    /\ chunkPc' = "send"
    /\ chunkGhost' = [chunkGhost EXCEPT !.connects = @ + 1]
    /\ UNCHANGED <<audio_bstream, chunk_events, chunkLog, chunkOutcome>>
    /\ UNCHANGED <<codecVars, sttVars, ttsVars, poolVars, recvVars>>

\* line 245 raises
ChunkConnectFails ==
    /\ chunkPc = "connect"
    /\ \E e \in ConnectFailures : ChunkFails(e)

\* lines 248-259: the one message with the configuration and the text
ChunkSend ==
    /\ chunkPc = "send"
    /\ chunkPc' = "recv"
    /\ chunkGhost' = [chunkGhost EXCEPT !.sends = @ + 1]
    /\ UNCHANGED <<audio_bstream, chunk_events, chunkLog, chunkOutcome>>
    /\ UNCHANGED <<codecVars, sttVars, ttsVars, poolVars, recvVars>>

\* line 259 raises
ChunkSendFails ==
    /\ chunkPc = "send"
    /\ \E e \in SendFailures : ChunkFails(e)

\* lines 262-264: a text message is passed over
ChunkRecvText ==
    /\ chunkPc = "recv"
    /\ Len(chunkLog) < MaxMessages
    /\ chunkLog' = Append(chunkLog, 0)
    /\ UNCHANGED <<chunkPc, audio_bstream, chunk_events, chunkOutcome, chunkGhost>>
    /\ UNCHANGED <<codecVars, sttVars, ttsVars, poolVars, recvVars>>

\* lines 262-271: a binary message goes through the reassembler, the whole
\* frames it gives go to the event channel
ChunkRecvBinary ==
    /\ chunkPc = "recv"
    /\ Len(chunkLog) < MaxMessages
    /\ \E n \in 1..MaxMessageBytes :
         LET got == SumOf(chunkLog)
             held == audio_bstream \o [k \in 1..n |-> got + k]
         IN  /\ chunkLog' = Append(chunkLog, n)
             /\ chunk_events' = chunk_events \o WholeFrames(held)
             /\ audio_bstream' = Remainder(held)
    /\ UNCHANGED <<chunkPc, chunkOutcome, chunkGhost>>
    /\ UNCHANGED <<codecVars, sttVars, ttsVars, poolVars, recvVars>>

\* line 262 raises: a timeout, a broken connection, or the socket closed by
\* the remote end
ChunkRecvFails ==
    /\ chunkPc = "recv"
    /\ \E e \in RecvFailures : ChunkFails(e)

ChunkNext ==
    \/ ChunkConnect \/ ChunkConnectFails \/ ChunkSend \/ ChunkSendFails
    \/ ChunkRecvText \/ ChunkRecvBinary \/ ChunkRecvFails

-----------------------------------------------------------------------------
(* The receiver task of the streaming synthesis: recv_task of tts.py, with   *)
(* the reassembler and the emitter it writes to. The bytes received are      *)
(* numbered 1, 2, ... in arrival order.                                      *)

\* the text messages the remote end may send: a JSON object with the status
\* "finished", with another status, without a status; a JSON document that is
\* not an object; a text that is not JSON
TextKinds == {"finished", "status", "nostatus", "notdict", "notjson"}

\* line 374: json.loads raises on a text that is not JSON
JsonLoadsFails(kind) == kind = "notjson"

\* line 375: resp.get needs an object
HasStatusGet(kind) == kind \in {"finished", "status", "nostatus"}

\* line 375: resp.get("status") == "finished"
IsFinished(kind) == kind = "finished"

\* the bytes of the binary messages read so far
RecvBytes ==
    SumOf([i \in 1..Len(recvLog) |->
              IF recvLog[i].kind = "binary" THEN recvLog[i].size ELSE 0])

\* lines 365-369, with the reassembler of lines 323-326
RecvInit ==
    /\ recvPc = "running"
    /\ recv_bstream = <<>>
    /\ recv_emitted = <<>>
    /\ recv_flushed = FALSE
    /\ recvLog = <<>>

RecvIdle ==
    /\ recvPc = "off"
    /\ recv_bstream = <<>>
    /\ recv_emitted = <<>>
    /\ recv_flushed = FALSE
    /\ recvLog = <<>>

\* lines 372, 382-383: a binary message goes through the reassembler and the
\* whole frames it gives are pushed at once
RecvTaskBinary ==
    /\ recvPc = "running"
    /\ Len(recvLog) < MaxMessages
    /\ \E n \in 1..MaxMessageBytes :
         LET held == recv_bstream \o [k \in 1..n |-> RecvBytes + k]
         IN  /\ recvLog' = Append(recvLog, [kind |-> "binary", size |-> n])
             /\ recv_emitted' = recv_emitted \o WholeFrames(held)
             /\ recv_bstream' = Remainder(held)
    /\ UNCHANGED <<recvPc, recv_flushed>>
    /\ UNCHANGED <<codecVars, sttVars, ttsVars, chunkVars, poolVars>>

\* lines 372-380: a text message; "finished" flushes the reassembler and the
\* emitter and leaves the loop, another object is passed over, anything else
\* raises out of the task
RecvTaskText ==
    /\ recvPc = "running"
    /\ Len(recvLog) < MaxMessages
    /\ \E kind \in TextKinds :
         /\ recvLog' = Append(recvLog, [kind |-> kind, size |-> 0])
         /\ IF JsonLoadsFails(kind)
            THEN /\ recvPc' = "JSONDecodeError"
                 /\ UNCHANGED <<recv_bstream, recv_emitted, recv_flushed>>
            ELSE IF ~HasStatusGet(kind)
            THEN /\ recvPc' = "AttributeError"
                 /\ UNCHANGED <<recv_bstream, recv_emitted, recv_flushed>>
            ELSE IF IsFinished(kind)
            THEN /\ recv_emitted' =
                       recv_emitted \o (IF recv_bstream = <<>> THEN <<>>
                                        ELSE <<recv_bstream>>)
                 /\ recv_bstream' = <<>>
                 /\ recv_flushed' = TRUE
                 /\ recvPc' = "done"
            ELSE UNCHANGED <<recvPc, recv_bstream, recv_emitted, recv_flushed>>
    /\ UNCHANGED <<codecVars, sttVars, ttsVars, chunkVars, poolVars>>

\* line 372 raises
RecvTaskFails ==
    /\ recvPc = "running"
    /\ \E e \in Raises : recvPc' = e
    /\ UNCHANGED <<recv_bstream, recv_emitted, recv_flushed, recvLog>>
    /\ UNCHANGED <<codecVars, sttVars, ttsVars, chunkVars, poolVars>>

RecvNext == RecvTaskBinary \/ RecvTaskText \/ RecvTaskFails

-----------------------------------------------------------------------------
(* The connection pool the TTS facade creates (tts.py lines 117-122), with    *)
(* the lifetime and the refresh policy it is given there.                    *)

MarkRefreshedOnGetAlways == TRUE

\* line 121: mark_refreshed_on_get=False
MarkRefreshedOnGet == FALSE

NoLast == [op |-> "none", conn |-> 0, age |-> 0, admitted |-> FALSE]

PoolInit ==
    /\ pool_clock = 0
    /\ pool_conns = <<>>
    /\ pool_last = NoLast

PoolIdle ==
    /\ pool_clock = -1
    /\ pool_conns = <<>>
    /\ pool_last = NoLast

\* the age the pool sees: the time since the stamp it keeps for the connection
StampAge(c) == pool_clock - c.stamp

\* the time since the connection was made
TrueAge(c) == pool_clock - c.connected_at

Expired(c) == StampAge(c) > MaxSessionDuration

LiveIdle == {i \in 1..Len(pool_conns) :
                pool_conns[i].where = "idle" /\ ~Expired(pool_conns[i])}

\* acquire drops the idle connections past their lifetime
Purged ==
    [i \in 1..Len(pool_conns) |->
        IF pool_conns[i].where = "idle" /\ Expired(pool_conns[i])
        THEN [pool_conns[i] EXCEPT !.where = "closed"]
        ELSE pool_conns[i]]

\* time passes
PoolTick ==
    /\ pool_clock >= 0
    /\ pool_clock < MaxClock
    /\ pool_clock' = pool_clock + 1
    /\ UNCHANGED <<pool_conns, pool_last>>
    /\ UNCHANGED <<codecVars, sttVars, ttsVars, chunkVars, recvVars>>

\* acquire: a live idle connection
PoolAcquireIdle ==
    /\ pool_clock >= 0
    /\ \E i \in LiveIdle :
         /\ pool_conns' = [Purged EXCEPT
                              ![i].where = "leased",
                              ![i].stamp = IF MarkRefreshedOnGet
                                           THEN pool_clock ELSE @]
         /\ pool_last' = [op |-> "get", conn |-> i,
                          age |-> TrueAge(pool_conns[i]), admitted |-> FALSE]
    /\ UNCHANGED pool_clock
    /\ UNCHANGED <<codecVars, sttVars, ttsVars, chunkVars, recvVars>>

\* acquire: no live idle connection, a new one is made (_connect_ws)
PoolAcquireNew ==
    /\ pool_clock >= 0
    /\ LiveIdle = {}
    /\ Len(pool_conns) < MaxConns
    /\ pool_conns' = Append(Purged, [connected_at |-> pool_clock,
                                     stamp |-> pool_clock, where |-> "leased"])
    /\ pool_last' = [op |-> "get", conn |-> Len(pool_conns) + 1, age |-> 0,
                     admitted |-> FALSE]
    /\ UNCHANGED pool_clock
    /\ UNCHANGED <<codecVars, sttVars, ttsVars, chunkVars, recvVars>>

\* release: back to the idle set, or closed when past its lifetime (_close_ws)
PoolPut ==
    /\ pool_clock >= 0
    /\ \E i \in 1..Len(pool_conns) :
         /\ pool_conns[i].where = "leased"
         /\ pool_conns' = [pool_conns EXCEPT
                              ![i].where = IF Expired(pool_conns[i])
                                           THEN "closed" ELSE "idle"]
         /\ pool_last' = [op |-> "put", conn |-> i,
                          age |-> TrueAge(pool_conns[i]),
                          admitted |-> ~Expired(pool_conns[i])]
    /\ UNCHANGED pool_clock
    /\ UNCHANGED <<codecVars, sttVars, ttsVars, chunkVars, recvVars>>

PoolNext == PoolTick \/ PoolAcquireIdle \/ PoolAcquireNew \/ PoolPut

-----------------------------------------------------------------------------
(* Specifications *)

InitCodec == CodecInit /\ SttIdle /\ TtsIdle /\ ChunkIdle /\ PoolIdle /\ RecvIdle
InitStt == CodecIdle /\ SttInit /\ TtsIdle /\ ChunkIdle /\ PoolIdle /\ RecvIdle
InitTts == CodecIdle /\ SttIdle /\ TtsInit /\ ChunkIdle /\ PoolIdle /\ RecvIdle
InitChunk == CodecIdle /\ SttIdle /\ TtsIdle /\ ChunkInit /\ PoolIdle /\ RecvIdle
InitPool == CodecIdle /\ SttIdle /\ TtsIdle /\ ChunkIdle /\ PoolInit /\ RecvIdle

SpecCodec == InitCodec /\ [][CodecNext]_vars
SpecStt == InitStt /\ [][SttNext]_vars
SpecTts == InitTts /\ [][TtsNext]_vars
SpecChunk == InitChunk /\ [][ChunkNext]_vars

\* The event loop runs every task that is ready, and the remote end answers
\* the requests it was sent: the steps of the loop and of its tasks are taken
\* when they stay possible. The callers, the faults and the cancellation of
\* the run are under no such obligation.
TtsFairness ==
    /\ WF_vars(Acquire)
    /\ WF_vars(TokenizeInput)
    /\ WF_vars(RunSegments)
    /\ WF_vars(RecvFinished)
    /\ WF_vars(MainWake)
    /\ WF_vars(AfterCancel)

SpecTtsLive == InitTts /\ [][TtsNext]_vars /\ TtsFairness
SpecPool == InitPool /\ [][PoolNext]_vars

InitRecv ==
    CodecIdle /\ SttIdle /\ TtsIdle /\ ChunkIdle /\ PoolIdle /\ RecvInit
SpecRecv == InitRecv /\ [][RecvNext]_vars

-----------------------------------------------------------------------------
(* Properties of the recognition session *)

FrameType(f) == f[2] \div 16
FrameFlags(f) == f[2] % 16
FrameSequence(f) == FromBytesSigned(SubSeq(f, 5, 8))
IsFlushFrame(f) == FrameFlags(f) = NEG_WITH_SEQUENCE
NoFlushBefore(i) == \A j \in 1..(i - 1) : ~IsFlushFrame(sent[j])

\* C1: up to and including the first flush frame, the i-th frame on the socket
\* (the configuration frame is the first) carries the sequence i, and the flush
\* frame carries -i, the negation of the counter value not yet used; until a
\* flush the counter is one past the frames sent.
C1_SequenceNumbers ==
    /\ \A i \in 1..Len(sent) :
          NoFlushBefore(i) =>
              /\ FrameSequence(sent[i]) = (IF IsFlushFrame(sent[i]) THEN -i ELSE i)
              /\ (i = 1) => (FrameType(sent[i]) = FULL_CLIENT_REQUEST)
    /\ NoFlushBefore(Len(sent) + 1) => seq = Len(sent) + 1

C1_Witness ==
    /\ Len(sent) = 4
    /\ NoFlushBefore(4)
    /\ IsFlushFrame(sent[4])
    /\ FrameSequence(sent[4]) = -4

RECURSIVE WellSpanned(_, _)
\* the events from position i on respect the span that is open (or not)
WellSpanned(i, open) ==
    IF i > Len(events) THEN TRUE
    ELSE CASE events[i].type = "START_OF_SPEECH" -> ~open /\ WellSpanned(i + 1, TRUE)
           [] events[i].type = "END_OF_SPEECH" -> open /\ WellSpanned(i + 1, FALSE)
           [] OTHER -> open /\ WellSpanned(i + 1, open)

NumEvents(t) == Cardinality({i \in 1..Len(events) : events[i].type = t})

\* C2: in the events emitted by run(), every transcript lies inside a span
\* opened by StartOfSpeech and not yet closed by EndOfSpeech, no StartOfSpeech
\* is emitted while a span is open, and no EndOfSpeech while none is open.
C2_EventOrdering ==
    /\ WellSpanned(1, FALSE)
    /\ speaking = (NumEvents("START_OF_SPEECH") > NumEvents("END_OF_SPEECH"))

C2_Witness ==
    /\ Len(events) >= 6
    /\ events[2].type = "INTERIM_TRANSCRIPT"
    /\ events[3].type = "FINAL_TRANSCRIPT"
    /\ events[4].type = "END_OF_SPEECH"
    /\ events[5].type = "START_OF_SPEECH"

\* C9: once run() has read a ServerErrorResponse frame, the session has ended
\* with RemoteError and is closed, and that frame emitted no speech event.
C9_RemoteError ==
    (lastRes.recv /\ lastRes.mt = SERVER_ERROR_RESPONSE) =>
        /\ runPc = "RemoteError"
        /\ sttPc = "closed"
        /\ lastRes.emitted = 0


\* C15: a second close() changes nothing, sends nothing and emits nothing, and
\* once close() was called the session is Closed: no frame is sent and no
\* event is emitted any more.
C15_CloseIdempotent ==
    closes.n >= 1 =>
        /\ sttPc = "closed"
        /\ Len(sent) = closes.sent
        /\ Len(events) = closes.events
        /\ ~closes.again


\* the frames handled so far: only frames with a text, and the last of them,
\* and no other, terminal
HappyPath ==
    /\ Len(results) >= 2
    /\ \A i \in 1..Len(results) :
         /\ results[i].text
         /\ results[i].is_final = (i = Len(results))

EventTypes == [i \in 1..Len(events) |-> events[i].type]

\* C18: from Quiet, k >= 1 non-terminal frames with a text followed by one
\* terminal frame with a text make run() emit StartOfSpeech, k
\* InterimTranscript, one FinalTranscript and one EndOfSpeech, in this order,
\* and leave the session Quiet.
C18_HappyPath ==
    HappyPath =>
        /\ EventTypes =
              <<"START_OF_SPEECH">>
              \o [i \in 1..(Len(results) - 1) |-> "INTERIM_TRANSCRIPT"]
              \o <<"FINAL_TRANSCRIPT", "END_OF_SPEECH">>
        /\ ~speaking

C18_Witness ==
    /\ HappyPath
    /\ Len(results) = 3
    /\ Len(events) = 5


FramePayloadSize(f) == FromBytesUnsigned(SubSeq(f, 9, 12))
FramePayload(f) == SubSeq(f, 13, Len(f))
FlushCalled == nFlush' = nFlush + 1
LastSent == sent'[Len(sent')]

\* what a call of flush() does apart from its payload: one more frame on the
\* socket, an AudioOnlyRequest flagged NegWithSequence that carries the
\* negation of the counter, and the counter untouched
FlushFrameSent ==
    /\ Len(sent') = Len(sent) + 1
    /\ SubSeq(sent', 1, Len(sent)) = sent
    /\ FrameType(LastSent) = AUDIO_ONLY_REQUEST
    /\ FrameFlags(LastSent) = NEG_WITH_SEQUENCE
    /\ FrameSequence(LastSent) = -seq
    /\ seq' = seq

\* C19 as stated: flush() sends exactly one AudioOnlyRequest frame whose
\* payload is empty (the length field is 0 and no payload byte follows), flagged
\* NegWithSequence, with the negation of the current counter as its sequence,
\* and leaves the counter unchanged.
C19_FlushEmptyPayload ==
    [][FlushCalled =>
          /\ FlushFrameSent
          /\ FramePayloadSize(LastSent) = Wide(0)
          /\ FramePayload(LastSent) = <<>>]_vars

\* C19, amended: the payload of the frame flush() sends is the gzip compression
\* of the empty byte string, which is not empty, and the length field is the
\* length of this compressed payload; the rest is as stated.
C19_FlushCompressedEmpty ==
    [][FlushCalled =>
          /\ FlushFrameSent
          /\ FramePayload(LastSent) = GzipCompress(<<>>)
          /\ FramePayload(LastSent) # <<>>
          /\ FramePayloadSize(LastSent) = Wide(Len(GzipCompress(<<>>)))]_vars

C19_Witness ==
    /\ nFlush = 1
    /\ nPush = 2
    /\ seq = 4
    /\ Len(sent) = 4
    /\ IsFlushFrame(sent[4])
    /\ FramePayload(sent[4]) = GzipCompress(<<>>)


\* C20: open() sends one FullClientRequest frame flagged PosSequence with the
\* sequence 1, this frame is the first of the session (no AudioOnlyRequest
\* before it) and no second FullClientRequest is sent in the session.
C20_OneConfigurationFrame ==
    /\ \A i \in 1..Len(sent) :
          (FrameType(sent[i]) = FULL_CLIENT_REQUEST) = (i = 1)
    /\ Len(sent) >= 1 =>
          /\ FrameFlags(sent[1]) = POS_SEQUENCE
          /\ FrameSequence(sent[1]) = 1


\* C21: the flush frame is a one-shot terminal signal: at most one frame
\* flagged NegWithSequence is sent in a session, and no AudioOnlyRequest frame
\* is sent after it, whatever push_audio and flush calls are made.
C21_FlushOneShot ==
    \A i \in 1..Len(sent) :
        IsFlushFrame(sent[i]) =>
            \A j \in (i + 1)..Len(sent) :
                FrameType(sent[j]) # AUDIO_ONLY_REQUEST


FrameHandled == Len(results') = Len(results) + 1
LastHandled == results'[Len(results')]

\* C32: in run(), a terminal frame with an empty text emits EndOfSpeech alone
\* and makes the session Quiet when it is Speaking, and emits nothing and
\* changes nothing when it is Quiet; a non-terminal frame with an empty text
\* emits nothing and changes nothing.
C32_EmptyText ==
    [][ (FrameHandled /\ ~LastHandled.text) =>
           IF LastHandled.is_final /\ speaking
           THEN /\ events' = Append(events, END_OF_SPEECH)
                /\ ~speaking'
           ELSE /\ events' = events
                /\ speaking' = speaking ]_vars

C32_Witness ==
    /\ results = << [text |-> TRUE, is_final |-> FALSE],
                    [text |-> FALSE, is_final |-> TRUE],
                    [text |-> FALSE, is_final |-> TRUE] >>
    /\ EventTypes = <<"START_OF_SPEECH", "INTERIM_TRANSCRIPT", "END_OF_SPEECH">>
    /\ ~speaking


PushCalled == nPush' = nPush + 1
FrameRead == nRecv' = nRecv + 1

\* C33: the send side and the receive side of a session touch disjoint state:
\* push_audio changes the counter alone, by +1, and flush changes nothing
\* (each puts its one frame on the socket); neither changes the Quiet or
\* Speaking state or emits an event; and run() handling a frame of the remote
\* end never changes the counter and sends no frame.
C33_SidesDisjoint ==
    [][ /\ PushCalled => /\ seq' = seq + 1
                         /\ Len(sent') = Len(sent) + 1
                         /\ speaking' = speaking
                         /\ events' = events
                         /\ runPc' = runPc
        /\ FlushCalled => /\ seq' = seq
                          /\ Len(sent') = Len(sent) + 1
                          /\ speaking' = speaking
                          /\ events' = events
                          /\ runPc' = runPc
        /\ FrameRead => /\ seq' = seq
                        /\ sent' = sent
                        /\ sttPc' = sttPc ]_vars

C33_Witness ==
    /\ nPush = 2
    /\ nFlush = 1
    /\ nRecv = 2
    /\ seq = 4
    /\ speaking
    /\ Len(events) = 3
    /\ Len(sent) = 4

-----------------------------------------------------------------------------
(* Properties of the codec *)

ValidCodes == {0, 1}
ValidFlags == {NO_SEQUENCE, POS_SEQUENCE, NEG_SEQUENCE, NEG_WITH_SEQUENCE}

DecodedEncoded == cPc = "decoded" /\ cFrom = "encoded"

ValidInput ==
    /\ cIn.fl \in ValidFlags
    /\ cIn.ser \in ValidCodes
    /\ cIn.comp \in ValidCodes

\* the decoder read the header fields, the sequence and the payload that were
\* encoded
RoundTrips ==
    LET h == ParseHeader(cBuf)
    IN  /\ cOut.err = "none"
        /\ h.message_type = cIn.mt
        /\ h.message_type_specific_flags = cIn.fl
        /\ h.serialization_method = cIn.ser
        /\ h.message_compression = cIn.comp
        /\ cOut.is_last_package = ((cIn.fl \div 2) % 2 = 1)
        /\ cOut.has_payload_sequence
        /\ cOut.payload_sequence = cIn.seq
        /\ cOut.payload_msg =
              (IF cIn.ser = JSON
               THEN [kind |-> "json", bytes |-> <<>>, json |-> cIn.pay.json]
               ELSE [kind |-> "bytes", bytes |-> cIn.pay.raw, json |-> 0])

\* C7: decoding what was encoded gives back the header fields, the sequence
\* and the payload, for all five message types and every valid sequence flag,
\* serialization and compression.
C7_RoundTripAllTypes == (DecodedEncoded /\ ValidInput) => RoundTrips

\* where the round trip does hold: FullServerResponse frames whose sequence
\* flag has bit0 set (PosSequence, NegWithSequence), for every valid
\* serialization and compression, every sequence number and payload
RoundTripOfServerResponse ==
    ( /\ DecodedEncoded
      /\ ValidInput
      /\ cIn.mt = FULL_SERVER_RESPONSE
      /\ cIn.fl % 2 = 1 ) => RoundTrips

RoundTripOfServerResponseSeen ==
    /\ DecodedEncoded
    /\ cIn.mt = FULL_SERVER_RESPONSE
    /\ cIn.fl = NEG_WITH_SEQUENCE
    /\ cIn.ser = JSON
    /\ cIn.comp = GZIP
    /\ cIn.seq = Int32Min
    /\ cOut.err = "none"
    /\ cOut.payload_sequence = Int32Min

\* C8: decoding a buffer of fewer than 4 bytes fails with FrameDecodeError.
C8_ShortBuffer ==
    (cPc = "decoded" /\ Len(cBuf) < 4) => cOut.err = "FrameDecodeError"

\* C10: decoding a frame of the remote end whose serialization code is neither 0
\* nor 1, or whose compression code is neither 0 nor 1, fails with
\* UnsupportedCodecError.
C10_UnsupportedCodec ==
    ( /\ cPc = "decoded"
      /\ cFrom = "served"
      /\ \/ ParseHeader(cBuf).serialization_method \notin ValidCodes
         \/ ParseHeader(cBuf).message_compression \notin ValidCodes )
    => cOut.err = "UnsupportedCodecError"


\* the bytes that follow the length prefix of a FullServerResponse in cBuf
BytesAfterPrefix ==
    LET h == ParseHeader(cBuf)
        lead == IF h.message_type_specific_flags % 2 = 1 THEN 4 ELSE 0
    IN  Len(cBuf) - (h.header_size * 4 + lead + 4)

\* C11: decoding a FullServerResponse whose buffer ends early, so that its
\* length prefix is incomplete or announces more bytes than follow it, fails
\* with FrameDecodeError and yields no payload.
C11_LengthPrefix ==
    ( /\ cPc = "decoded"
      /\ cFrom = "cut"
      /\ Len(cBuf) >= 4
      /\ ParseHeader(cBuf).message_type = FULL_SERVER_RESPONSE
      /\ \/ BytesAfterPrefix < 0
         \/ cOut.payload_size # Wide(BytesAfterPrefix) )
        => cOut.err = "FrameDecodeError"

-----------------------------------------------------------------------------
(* Streaming synthesis: what a fragment needs to reach the wire *)

SentTokens == {wire[k].token : k \in 1..Len(wire)}

\* the sender has the segment or will get it from the segment channel
InSendersReach(i) == i = cur_stream \/ i \in Range(segments_ch)

\* the fragment can still be sent: it waits in the input channel, or a word
\* stream in the sender's reach has produced it, or holds it and is the one
\* the tokenizer task feeds
Pending(f) ==
    \/ f \in Range(input_ch)
    \/ \E i \in 1..Len(segments) :
         /\ InSendersReach(i)
         /\ \/ f \in Range(segments[i].out)
            \/ f \in Range(segments[i].held) /\ i = word_stream

\* the run is under way or has returned, and met no fault
Undisturbed == outcome \in {"running", "returned"} /\ ~ghost.raised

\* C3: when an option update comes while a segment is in progress and a
\* fragment is pushed after it, the session does not raise and the fragment
\* is not dropped: it is sent, or it is still on its way to the sender
C3_LaterFragmentKept ==
    Undisturbed => \A f \in ghost.late : f \in SentTokens \/ Pending(f)

\* C4: the tokens of the segments tokenized and not fully sent when the tasks
\* are restarted are not lost: each has been sent or is still in the sender's
\* reach, the segment the cancelled sender had dequeued included
C4_SegmentsPersist ==
    Undisturbed => \A f \in ghost.atReconnect : f \in SentTokens \/ Pending(f)

\* C5: on every exit path of the driving loop no connection stays leased: the
\* only connection leased while the run goes is the one it holds, and none is
\* once the run has ended
C5_AllReleased ==
    /\ pool.leased \subseteq {ws}
    /\ pc \in {"get", "ended"} => pool.leased = {}

C5_Witness ==
    /\ pc = "ended"
    /\ epoch >= 2
    /\ pool.made >= 2
    /\ outcome = "CancelledError"
    /\ ghost.raised

\* C6: when a task of an epoch raised, the run ends by raising the timeout
\* error or the connection error; it does not return as if the stream were
\* complete
C6_TaskErrorSurfaces ==
    (pc = "ended" /\ ghost.raised /\ outcome # "CancelledError")
        => outcome \in {"APITimeoutError", "APIConnectionError"}


\* the bytes of a decoded frame after its header and its optional leading
\* sequence field
BytesAfterLead ==
    LET h == ParseHeader(cBuf)
        lead == IF h.message_type_specific_flags % 2 = 1 THEN 4 ELSE 0
    IN  Len(cBuf) - (h.header_size * 4 + lead)

\* C30: decoding a ServerAck frame of the remote end succeeds in both of its
\* shapes: with fewer than 8 bytes after the optional leading sequence field
\* it gives the sequence echo and no payload, with 8 bytes or more the
\* sequence echo and the payload that follows the length; neither shape
\* raises.
C30_AckBothShapes ==
    ( /\ cPc = "decoded"
      /\ cFrom = "served"
      /\ cIn.mt = SERVER_ACK
      /\ ValidInput )
    => /\ cOut.err = "none"
       /\ cOut.has_seq
       /\ cOut.seq = cIn.seq
       /\ cOut.payload_msg =
             (IF BytesAfterLead < 8 THEN NoMsg
              ELSE IF cIn.ser = JSON
              THEN [kind |-> "json", bytes |-> <<>>, json |-> cIn.pay.json]
              ELSE [kind |-> "bytes", bytes |-> cIn.pay.raw, json |-> 0])


\* C31: on decode, for each of the 16 values of the flag nibble, a sequence
\* field is read (4 bytes, signed, big-endian, right after the header) if and
\* only if bit0 is set, and the frame is marked terminal if and only if bit1
\* is set, whatever bit0 and the sign of the sequence.
C31_FlagBits ==
    ( /\ cPc = "decoded"
      /\ cFrom \in {"served", "encoded"}
      /\ cOut.err = "none" )
    => /\ cOut.has_payload_sequence = (cIn.fl % 2 = 1)
       /\ cOut.has_payload_sequence => cOut.payload_sequence = cIn.seq
       /\ cOut.is_last_package = (cIn.fl \in {2, 3, 6, 7, 10, 11, 14, 15})

C31_Witness ==
    /\ cPc = "decoded"
    /\ cFrom = "served"
    /\ cOut.err = "none"
    /\ cIn.fl = 6
    /\ cIn.mt = SERVER_ERROR_RESPONSE
    /\ cOut.is_last_package
    /\ ~cOut.has_payload_sequence


\* the buffer is a frame the encoder assembled, whole
EncodedFrame == cPc = "encoded" \/ (cPc = "decoded" /\ cFrom = "encoded")

\* values of the reserved byte other than the one the buffer has
OtherReserved == {0, 1, 255} \ {cBuf[4]}

\* C34: every frame encoded has the header 0x11, messageType*16 + seqFlag,
\* serialization*16 + compression, 0x00, then the sequence as 4 bytes signed
\* big-endian, then as 4 bytes big-endian the length of the payload as sent,
\* that is after compression, then this payload; and decode gives the same
\* result whatever the value of header byte 3.
C34_FrameLayout ==
    /\ EncodedFrame =>
          /\ Len(cBuf) >= 12
          /\ cBuf[1] = 17
          /\ cBuf[2] = cIn.mt * 16 + cIn.fl
          /\ cBuf[3] = cIn.ser * 16 + cIn.comp
          /\ cBuf[4] = 0
          /\ SubSeq(cBuf, 5, 8) = ToBytes4Signed(cIn.seq)
          /\ FromBytesSigned(SubSeq(cBuf, 5, 8)) = cIn.seq
          /\ FromBytesUnsigned(SubSeq(cBuf, 9, 12)) = Wide(Len(cBuf) - 12)
          /\ SubSeq(cBuf, 13, Len(cBuf)) = PayloadBytes(cIn.ser, cIn.comp, cIn.pay)
    /\ (cPc = "decoded" /\ Len(cBuf) >= 4) =>
          \A r \in OtherReserved :
              ParseResponse([cBuf EXCEPT ![4] = r]) = cOut

C34_Witness ==
    /\ cPc = "decoded"
    /\ cFrom = "encoded"
    /\ cIn.mt = AUDIO_ONLY_REQUEST
    /\ cIn.fl = NEG_WITH_SEQUENCE
    /\ cIn.comp = GZIP
    /\ cIn.seq = -1
    /\ cBuf[5] = 255
    /\ Len(cBuf) = 16
    /\ cBuf[12] = 4

-----------------------------------------------------------------------------
(* Properties of the one-shot synthesis *)

\* the remote end closed the socket while _run was reading
RemoteClosed ==
    /\ chunkPc = "ended"
    /\ chunkGhost.at = "recv"
    /\ chunkGhost.cause = "ConnectionClosedOK"

\* C12: when the stream ends, the frames emitted hold, end to end, exactly the
\* bytes of the binary messages received, in order: the remainder was flushed
\* as a last frame.
C12_NoAudioLost ==
    RemoteClosed =>
        Concat(chunk_events) = [k \in 1..SumOf(chunkLog) |-> k]

\* C13: when the remote end closes the socket after its audio, the run ends
\* normally, without raising.
C13_EndsNormally ==
    (RemoteClosed /\ SumOf(chunkLog) > 0) => chunkOutcome = "returned"

\* C14: a timeout while connecting, sending or receiving ends the run with the
\* timeout error and every other failure with the connection error, and the
\* run connects and sends at most once.
C14_ErrorsKeptApart ==
    /\ chunkGhost.connects <= 1 /\ chunkGhost.sends <= 1
    /\ chunkGhost.sends <= chunkGhost.connects
    /\ chunkPc = "ended" =>
         /\ chunkGhost.cause # "none"
         /\ (chunkGhost.cause = "TimeoutError") = (chunkOutcome = "APITimeoutError")
         /\ (chunkGhost.cause # "TimeoutError") = (chunkOutcome = "APIConnectionError")

C14_Witness ==
    /\ chunkPc = "ended"
    /\ chunkGhost.at = "recv"
    /\ chunkGhost.cause = "TimeoutError"
    /\ chunkOutcome = "APITimeoutError"
    /\ Len(chunk_events) >= 1

-----------------------------------------------------------------------------
(* Properties of the connection pool *)

\* C16: a connection older, counted from its connect time, than the maximum
\* lifetime is never returned by acquire and never re-admitted to the idle set
\* by release; one that expires while leased stays leased until it is
\* released, and is closed then.
C16_PoolExpiry ==
    /\ pool_last.op = "get" => pool_last.age <= MaxSessionDuration
    /\ pool_last.op = "put" =>
         /\ pool_last.admitted = (pool_last.age <= MaxSessionDuration)
         /\ pool_conns[pool_last.conn].where # "leased"
         /\ ~pool_last.admitted => pool_conns[pool_last.conn].where = "closed"
    /\ \A i \in 1..Len(pool_conns) :
         pool_conns[i].stamp = pool_conns[i].connected_at

C16_Witness ==
    /\ pool_last.op = "put"
    /\ pool_last.age > MaxSessionDuration
    /\ pool_conns[pool_last.conn].where = "closed"
    /\ \E i \in 1..Len(pool_conns) :
         /\ pool_conns[i].where = "leased"
         /\ TrueAge(pool_conns[i]) > MaxSessionDuration

-----------------------------------------------------------------------------
(* Properties of the driving loop of the streaming synthesis *)

\* the calls of pool.get() made so far, the one that raised included
Acquires ==
    epoch + (IF outcome \in {"APITimeoutError", "APIConnectionError"} THEN 1 ELSE 0)

\* C17: a new epoch starts only after a reconnect signal set by an option
\* update was observed: the acquires are at most one more than the signals
\* observed, these at most the option updates, and an epoch that ends with no
\* signal observed, a task failure included, ends the loop.
C17_ReconnectOnlyOnSignal ==
    /\ Acquires <= 1 + ghost.reconnects
    /\ ghost.reconnects <= ghost.updates
    /\ pc = "wait" => epoch = ghost.reconnects + 1
    /\ pc = "cancel" => epoch = ghost.reconnects + (IF leaving THEN 1 ELSE 0)
    /\ pc = "get" => epoch = ghost.reconnects

C17_Witness ==
    /\ pc = "ended"
    /\ outcome = "returned"
    /\ ghost.raised
    /\ ghost.reconnects = 1
    /\ epoch = 2
    /\ ~reconnect_event


\* a task of the epoch has not stopped
SomeTaskRuns == \E t \in EpochTasks : task[t] = "running"

\* a frame goes out on the connection, or audio is emitted, in this step
SendsOrEmits == wire' # wire \/ (heard' /\ ~heard)

\* C22: when the reconnect signal wins the race, the three tasks of the epoch
\* have stopped before the connection is released and before the tasks of the
\* next epoch start: tasks run only while the loop waits on them, what is
\* sent or emitted is sent or emitted by the running epoch on its own
\* connection, and the loop takes a connection from the pool only when no
\* task runs and has none running once it has given one back.
C22_EpochsApart ==
    [][ /\ SomeTaskRuns => pc = "wait"
        /\ SomeTaskRuns' => pc' = "wait"
        /\ SendsOrEmits => /\ pc = "wait"
                           /\ pc' = "wait"
                           /\ ws' = ws
                           /\ epoch' = epoch
        /\ wire' # wire => /\ Len(wire') = Len(wire) + 1
                           /\ wire'[Len(wire')].epoch = epoch
        /\ pool' # pool => IF pc = "get" THEN ~SomeTaskRuns ELSE ~SomeTaskRuns' ]_vars

C22_Witness ==
    /\ ghost.reconnects = 1
    /\ pc = "wait"
    /\ epoch = 2
    /\ \A t \in EpochTasks : task[t] = "running"
    /\ \E i \in 1..Len(wire) : wire[i].epoch = 1
    /\ pool.idle = {}
    /\ pool.leased = {ws}


\* the three tasks of the epoch have completed: the input has ended, every
\* token has been sent and the remote end has reported "finished"
CompletedNaturally ==
    /\ pc = "wait"
    /\ \A t \in EpochTasks : task[t] = "done"
    /\ input_closed
    /\ input_ch = <<>>

\* C23: once the input has ended, all tokens have been sent and the remote end
\* has reported "finished", the driving loop eventually exits and has released
\* the connection, also when the reconnect signal is set at that time.
C23_Terminates ==
    CompletedNaturally ~> (pc = "ended" /\ pool.leased = {})


\* C24: the loop releases each connection it acquired exactly once: release
\* is never called for a connection that is not leased, in particular not
\* when the acquire of the next epoch fails after a reconnect.
C24_ReleasedOnce == ~pool.twice


UpdateCalled == ghost'.updates = ghost.updates + 1
ReconnectTaken == ghost'.reconnects = ghost.reconnects + 1

\* C25: every option update sets the reconnect signal; the signal is one
\* level, not a count: it stays set, whatever the number of updates, until
\* the loop takes the one reconnect they cause, which clears it; nothing
\* else sets or clears it, so an update made before the first epoch is still
\* there when the loop first waits.
C25_SignalSingleSlot ==
    [][ /\ UpdateCalled => reconnect_event'
        /\ ReconnectTaken => /\ reconnect_event
                             /\ ~reconnect_event'
                             /\ pc = "wait"
        /\ (~UpdateCalled /\ ~ReconnectTaken) => reconnect_event' = reconnect_event
        /\ (ghost.updates > 0 /\ ghost.reconnects = 0) => reconnect_event
        /\ ghost.reconnects <= ghost.updates ]_vars

C25_Witness ==
    /\ ghost.updates = 2
    /\ ghost.reconnects = 1
    /\ ~reconnect_event
    /\ pc = "wait"
    /\ epoch = 2
    /\ wire = <<>>


\* C26: within one connection epoch the token frames go out in the order the
\* fragments arrived and the segments in the order they were created: every
\* token of a segment before any token of a later one, the tokens of one
\* segment in the order it produced them, and one frame per token.
C26_SendOrder ==
    \A i \in 1..Len(wire) : \A j \in (i + 1)..Len(wire) :
        /\ wire[i].token # wire[j].token
        /\ wire[i].epoch = wire[j].epoch =>
              /\ wire[i].seg <= wire[j].seg
              /\ wire[i].token < wire[j].token

C26_Witness ==
    /\ Len(wire) = 2
    /\ wire[1] = [epoch |-> 1, seg |-> 1, token |-> 1]
    /\ wire[2] = [epoch |-> 1, seg |-> 2, token |-> 2]
    /\ Len(segments) = 2


-----------------------------------------------------------------------------
(* Properties of the receiver task of the streaming synthesis *)

MessageRead == Len(recvLog') = Len(recvLog) + 1
LastRead == recvLog'[Len(recvLog')]

\* C27: the receiver emits audio in arrival order and stops on completion:
\* the frames emitted and the bytes still held are the bytes received, in
\* order; a text frame with the status "finished" flushes the remainder,
\* closes the emission and ends the task; any other text frame emits nothing
\* and does not end the task.
C27_ReceiverOrder ==
    [][ MessageRead =>
          /\ Concat(recv_emitted') \o recv_bstream' = [k \in 1..RecvBytes' |-> k]
          /\ LastRead.kind = "finished" =>
                /\ recv_bstream' = <<>>
                /\ recv_flushed'
                /\ recvPc' = "done"
          /\ LastRead.kind \notin {"binary", "finished"} =>
                /\ recv_emitted' = recv_emitted
                /\ recv_flushed' = recv_flushed
                /\ recvPc' = "running" ]_vars


-----------------------------------------------------------------------------
(* Properties of the tokenizer task of the streaming synthesis *)

\* the segments opened and not ended
ActiveSegments == {i \in 1..Len(segments) : ~segments[i].ended}

\* the fragments a segment was fed and has not given to the sender
InSegments ==
    UNION {Range(segments[i].held) \cup Range(segments[i].out) :
              i \in 1..Len(segments)}

\* C28: the segment lifecycle of the tokenizer task: a segment is opened only
\* on the first fragment after the start or after a flush sentinel, so at
\* most one segment is active at any time, and it is the one the task holds;
\* every fragment taken from the input is fed to a segment; a flush sentinel
\* ends the active segment and clears the handle; and the segment channel is
\* closed when the input has ended and only then.
C28_SegmentLifecycle ==
    /\ task.tokenize = "running" =>
          /\ ActiveSegments \subseteq {word_stream}
          /\ word_stream # 0 => word_stream \in ActiveSegments
    /\ \A f \in 1..ghost.nFrag :
          f \in Range(input_ch) \cup InSegments \cup SentTokens
    /\ segments_closed => input_closed
    /\ task.tokenize = "done" => segments_closed


\* segment i is on record and its input is over for good: the caller has
\* ended the input of the session
InputOverFor(i) == i <= Len(segments) /\ input_closed

SegmentEnded(i) == i <= Len(segments) /\ segments[i].ended

\* C29: every segment the tokenizer task has put on the segment channel
\* eventually has its input ended once the input of the session is over, also
\* without a last flush sentinel and when a reconnect cancelled the tokenizer
\* task while the segment was active, so that the sender does not wait for
\* ever for tokens of a segment that gets none (or the run has ended).
C29_SegmentsGetEnded ==
    \A i \in 1..MaxCalls :
        InputOverFor(i) ~> (SegmentEnded(i) \/ pc = "ended")

====
